---- MODULE Spec2Model ----
(***************************************************************************)
(* The ZSTD adapter of module/zstd/zstd.c: the level map, the block        *)
(* header written by zstd_compress and read by zstd_decompress_level, the  *)
(* slot pool allocator (zstd_mempool_alloc / zstd_free) and the fallback   *)
(* slab of the decompression allocator.  Every consumer thread is a small  *)
(* state machine whose steps are the mutex operations and heap calls of    *)
(* the C code; code between two such operations touches only the thread's  *)
(* own locals and is folded into the step that precedes it.                *)
(***************************************************************************)
EXTENDS Integers, Sequences, FiniteSets, TLC

VARIABLES
    pool_count,   \* static int pool_count (ZSTD_POOL_MAX)
    mempool,      \* zstd_mempool_cctx / zstd_mempool_dctx; <<>> is the NULL pointer
    fallback,     \* struct zstd_fallback_mem zstd_dctx_fallback
    now,          \* gethrestime_sec()
    pc,           \* per thread: position in the code
    scan,         \* per thread: locals of zstd_mempool_alloc and its caller
    held,         \* per thread: the allocations the codec context owns
    io,           \* per thread: arguments, buffers and result of the facade call
    scope,        \* which inputs the callers draw (fixed by the initial state)
    kern          \* the kernel's side: boot_ncpus, what the heap has handed out

vars == <<pool_count, mempool, fallback, now, pc, scan, held, io, scope, kern>>

----------------------------------------------------------------------------
(* Bounds of the model *)

MaxLen == 10       \* longest input buffer
MaxRuns == 3       \* most runs of equal bytes in an input buffer
MaxSize == 2       \* largest size the codec asks of the allocator
MaxTicks == 1      \* how often the clock advances
MaxCpus == 5       \* most CPUs a machine boots with
MaxFinis == 2      \* most calls of zstd_fini

----------------------------------------------------------------------------
(* Program constants *)

sizeof_bufsize == 4
sizeof_levelcookie == 4
sizeof_zstd_kmem == 24
ZSTD_POOL_TIMEOUT == 60 * 2
pool_count_static == 16
boot_ncpus == 1
PAGESIZE == 4096
ZIO_COMPLEVEL_INHERIT == 0
ZIO_COMPLEVEL_DEFAULT == 255

ZSTD_KMEM_UNKNOWN == 0
ZSTD_KMEM_DEFAULT == 1
ZSTD_KMEM_POOL == 2
ZSTD_KMEM_DCTX == 3
ZSTD_KMEM_COUNT == 4

(* enum zio_zstd_levels: the tags stored in the level byte *)
ZIO_ZSTDLVL_INHERIT == 0
ZIO_ZSTDLVL_RESERVE == 101
ZIO_ZSTDLVL_FAST == ZIO_ZSTDLVL_RESERVE + 1
ZIO_ZSTDLVL_DEFAULT == 250
ZIO_ZSTD_LEVEL_DEFAULT == 3

Max(a, b) == IF a >= b THEN a ELSE b
Min(a, b) == IF a <= b THEN a ELSE b

----------------------------------------------------------------------------
(* 4.A  Level map *)

FastCookies ==
    <<-1, -2, -3, -4, -5, -6, -7, -8, -9, -10, -20, -30, -40, -50, -60, -70,
      -80, -90, -100, -500, -1000>>

(* static struct levelmap fastlevels[]: {cookie, level} *)
fastlevels ==
    [k \in 1..19 |-> [cookie |-> k, level |-> k]] \o
    [j \in 1..Len(FastCookies) |->
        [cookie |-> FastCookies[j], level |-> ZIO_ZSTDLVL_FAST + j]]

ARRAY_SIZE(array) == Len(array)

RECURSIVE cookie_scan(_, _)
cookie_scan(i, level) ==
    IF i > ARRAY_SIZE(fastlevels) THEN ZIO_ZSTD_LEVEL_DEFAULT
    ELSE IF fastlevels[i].cookie = level THEN fastlevels[i].level
    ELSE cookie_scan(i + 1, level)

(* a lookup that ignores the sign of the cookie *)
zstd_cookie_to_enum_unsigned(level) ==
    cookie_scan(1, IF level < 0 THEN 0 - level ELSE level)

zstd_cookie_to_enum(level) == cookie_scan(1, level)

RECURSIVE enum_scan(_, _)
enum_scan(i, elevel) ==
    IF i > ARRAY_SIZE(fastlevels) THEN 3
    ELSE IF fastlevels[i].level = elevel THEN fastlevels[i].cookie
    ELSE enum_scan(i + 1, elevel)

zstd_enum_to_cookie(elevel) == enum_scan(1, elevel)

(* whether the scan of zstd_enum_to_cookie finds the level; when it does    *)
(* not, the function logs "Invalid ZSTD enum level" and returns 3          *)
EnumKnown(elevel) == \E i \in 1..ARRAY_SIZE(fastlevels) : fastlevels[i].level = elevel

(* whether the scan of zstd_cookie_to_enum finds the cookie *)
CookieKnown(level) == \E i \in 1..ARRAY_SIZE(fastlevels) : fastlevels[i].cookie = level

----------------------------------------------------------------------------
(* 4.B  Big-endian 32-bit words.  A word is kept as the int32 with the      *)
(* same bit pattern, so that every value stays inside the model checker's  *)
(* integers; its unsigned reading is v when v >= 0 and v + 2^32 otherwise. *)

BE_32(v) ==
    << (v \div 16777216) % 256, (v \div 65536) % 256, (v \div 256) % 256, v % 256 >>

BE_IN32(b, off) ==
    (IF b[off + 1] >= 128 THEN b[off + 1] - 256 ELSE b[off + 1]) * 16777216
        + b[off + 2] * 65536 + b[off + 3] * 256 + b[off + 4]

(* size_t subtraction: a - b modulo the width of size_t.  The modulus is    *)
(* scaled to 2^30, above every length the model forms.                     *)
SIZE_T_MOD == 2 ^ 30
size_sub(a, b) == (a - b) % SIZE_T_MOD

----------------------------------------------------------------------------
(* The codec library (ZSTD_compressCCtx / ZSTD_decompressDCtx), an external *)
(* collaborator: a run-length codec over the input alphabet {0, 1} whose    *)
(* decoder inverts its encoder.  One payload byte 2 * n + b stands for a    *)
(* run of n bytes b.  A result is [err, out]: the error flag that           *)
(* ZSTD_isError tests, and the bytes written to the destination.            *)

RunAt(s) ==
    CHOOSE n \in 1..Len(s) :
        /\ \A k \in 1..n : s[k] = s[1]
        /\ n = Len(s) \/ s[n + 1] # s[1]

RECURSIVE rle_encode(_)
rle_encode(s) ==
    IF s = <<>> THEN <<>>
    ELSE LET n == RunAt(s)
         IN  <<2 * n + s[1]>> \o rle_encode(SubSeq(s, n + 1, Len(s)))

RECURSIVE rle_decode(_, _)
rle_decode(p, cap) ==
    IF p = <<>> THEN [err |-> FALSE, out |-> <<>>]
    ELSE LET n == p[1] \div 2
             b == p[1] % 2
         IN  IF n = 0 \/ n > cap THEN [err |-> TRUE, out |-> <<>>]
             ELSE LET r == rle_decode(Tail(p), cap - n)
                  IN  [err |-> r.err, out |-> [k \in 1..n |-> b] \o r.out]

(* dstSize_tooSmall when the payload does not fit the capacity *)
ZSTD_compressCCtx(dstCapacity, src) ==
    LET p == rle_encode(src)
    IN  IF Len(p) > dstCapacity THEN [err |-> TRUE, out |-> <<>>]
        ELSE [err |-> FALSE, out |-> p]

ZSTD_decompressDCtx(dstCapacity, payload) == rle_decode(payload, dstCapacity)

(* the sizes the codec asks of the allocator: sizeof (ZSTD_CCtx), the      *)
(* compression workspace, and sizeof (ZSTD_DCtx)                            *)
CCtxSize == 1
WkspSize == MaxSize
DCtxSize == 1
ZSTD_estimateDCtxSize == DCtxSize

----------------------------------------------------------------------------
(* Memory images.  A buffer is the sequence of bytes from its start; a      *)
(* store past the caller's length lands in the bytes after the buffer.      *)

Poison == 170

Poke(img, off, bytes) ==
    [k \in 1..Max(Len(img), off + Len(bytes)) |->
        IF k > off /\ k <= off + Len(bytes) THEN bytes[k - off]
        ELSE IF k <= Len(img) THEN img[k] ELSE Poison]

Fill(n, b) == [k \in 1..n |-> b]

----------------------------------------------------------------------------
(* 4.D  The facade's own computations *)

HeaderSize == sizeof_bufsize + sizeof_levelcookie

(* zstd_compress, lines 361-371: the cookie handed to the codec *)
compress_levelcookie(n) ==
    LET c0 == zstd_enum_to_cookie(n)
        c1 == IF c0 = ZIO_COMPLEVEL_DEFAULT THEN ZIO_ZSTD_LEVEL_DEFAULT ELSE c0
    IN  IF c1 = ZIO_ZSTDLVL_DEFAULT THEN ZIO_ZSTD_LEVEL_DEFAULT ELSE c1

(* zstd_compress, lines 383-386: the codec call on dest + 8 *)
compress_codec(c) ==
    LET r == ZSTD_compressCCtx(size_sub(size_sub(c.d_len, sizeof_bufsize),
                                        sizeof_levelcookie), c.src)
    IN  [c EXCEPT !.c_err = r.err,
                  !.c_len = Len(r.out),
                  !.dst = IF r.err THEN c.dst ELSE Poke(c.dst, HeaderSize, r.out)]

(* zstd_compress, lines 379-381: context creation failed *)
compress_nomem(c) == [c EXCEPT !.ret = c.s_len, !.done = TRUE]

(* a zstd_compress that answers a codec error with the destination size *)
compress_finish_d_len(c) ==
    IF c.c_err THEN [c EXCEPT !.ret = c.d_len, !.done = TRUE]
    ELSE [c EXCEPT
            !.dst = Poke(Poke(c.dst, 0, BE_32(c.c_len)),
                         sizeof_bufsize, BE_32(c.cookie)),
            !.ret = c.c_len + sizeof_bufsize + sizeof_levelcookie,
            !.done = TRUE]

(* zstd_compress, lines 391-413: error check, header, return value *)
compress_finish(c) ==
    IF c.c_err THEN [c EXCEPT !.ret = c.s_len, !.done = TRUE]
    ELSE [c EXCEPT
            !.dst = Poke(Poke(c.dst, 0, BE_32(c.c_len)),
                         sizeof_bufsize, BE_32(c.cookie)),
            !.ret = c.c_len + sizeof_bufsize + sizeof_levelcookie,
            !.done = TRUE]

(* zstd_decompress_level, line 447: bufsize + sizeof (bufsize) > s_len, the  *)
(* uint32_t bufsize widened to size_t                                      *)
decompress_invalid(bufsize, s_len) ==
    bufsize < 0 \/ bufsize > s_len - sizeof_bufsize

(* zstd_decompress_level, lines 456-457: the codec call on src + 8 *)
decompress_codec(c) ==
    LET r == ZSTD_decompressDCtx(c.d_len,
                 SubSeq(c.src, HeaderSize + 1, HeaderSize + c.bufsize))
    IN  [c EXCEPT !.c_err = r.err,
                  !.c_len = Len(r.out),
                  !.codec = TRUE,
                  !.dst = Poke(c.dst, 0, r.out)]

(* zstd_decompress_level, lines 446-454: rejected frame, or no context *)
decompress_fail(c) == [c EXCEPT !.ret = 1, !.done = TRUE]

(* zstd_decompress_level, lines 465-473 *)
decompress_finish(c) ==
    IF c.c_err THEN [c EXCEPT !.ret = 1, !.done = TRUE]
    ELSE [c EXCEPT !.ret = 0, !.level = c.zstdlevel, !.done = TRUE]

(* zstd_get_level, lines 416-430: returns <<status, level>> *)
zstd_get_level(src, s_len) ==
    LET levelcookie == BE_IN32(src, sizeof_levelcookie)
        zstdlevel == zstd_cookie_to_enum(levelcookie) % 256
    IN  <<0, zstdlevel>>

----------------------------------------------------------------------------
(* State of the allocator and of the consumer threads *)

Threads == DOMAIN pc
NoOwner == 0
Pools == {"cctx", "dctx"}

(* struct zstd_pool after kmem_zalloc and mutex_init *)
EmptySlot == [mem |-> FALSE, size |-> 0, barrier |-> NoOwner, timeout |-> 0]

(* struct zstd_kmem, the header in front of every buffer; NoMem is NULL *)
NoMem == [kmem_type |-> ZSTD_KMEM_UNKNOWN, kmem_size |-> 0, pool |-> "none", slot |-> 0]
PoolMem(p, i, size) ==
    [kmem_type |-> ZSTD_KMEM_POOL, kmem_size |-> size, pool |-> p, slot |-> i]
HeapMem(size) ==
    [kmem_type |-> ZSTD_KMEM_DEFAULT, kmem_size |-> size, pool |-> "none", slot |-> 0]
FallbackMem(size) ==
    [kmem_type |-> ZSTD_KMEM_DCTX, kmem_size |-> size, pool |-> "none", slot |-> 0]

(* the flags of vmem_alloc *)
KM_SLEEP == 0
KM_NOSLEEP == 1

(* km: the flags of the vmem_alloc calls made so far for this request *)
NoScan ==
    [pool |-> "none", what |-> "none", size |-> 0, i |-> 0, mem |-> NoMem, km |-> {}]

(* what a caller of zstd_get_level got back *)
NoGl == [called |-> FALSE, ret |-> 0, level |-> 0, s_len |-> 0, tam |-> "none"]

(* a facade call: its arguments, locals, destination image and result,     *)
(* whether its codec context was created and the codec was run; for        *)
(* a decompression also the buffer (orig) and destination size (cap) of    *)
(* the compression that made the frame, and how the frame was altered;     *)
(* miss: zstd_enum_to_cookie(n), called at line 361, did not find n        *)
NoIo ==
    [op |-> "none", src |-> <<>>, s_len |-> 0, d_len |-> 0, n |-> 0, cookie |-> 0,
     bufsize |-> 0, zstdlevel |-> 0, dst |-> <<>>, c_err |-> FALSE, c_len |-> 0,
     ctx |-> FALSE, codec |-> FALSE, ret |-> 0, level |-> 0, orig |-> <<>>,
     cap |-> 0, miss |-> FALSE,
     tam |-> "none", gl |-> NoGl, done |-> FALSE]

(* a rounding down to the alignment *)
P2ROUNDUP_down(x, align) == (x \div align) * align

P2ROUNDUP(x, align) == ((x + align - 1) \div align) * align

(* zstd_mempool_init: both arrays zeroed, every barrier initialised *)
zstd_mempool_init(count) == [p \in Pools |-> [i \in 1..count |-> EmptySlot]]

(* create_fallback_mem, called by zstd_meminit *)
create_fallback_mem(size) == [mem_size |-> size, mem |-> TRUE, barrier |-> NoOwner]

(* The kernel heap as the adapter sees it: vmem counts the buffers that    *)
(* vmem_alloc returned and kmem_free has not taken back, arrays is the set *)
(* of pool arrays from kmem_zalloc still allocated, slab tells whether the *)
(* fallback slab was never allocated ("none"), is allocated ("live") or    *)
(* was handed to kmem_free ("freed"), inits and finis count the calls of   *)
(* zstd_init and zstd_fini, and faults collects what the kernel does not   *)
(* survive: a second kmem_free of one pointer, a second mutex_destroy of   *)
(* one mutex, a load through a NULL pointer.                               *)
NoKern(ncpus) ==
    [ncpus |-> ncpus, vmem |-> 0, arrays |-> {}, slab |-> "none",
     destroyed |-> {}, inits |-> 0, finis |-> 0, faults |-> {}]

vmem_alloc(k) == [k EXCEPT !.vmem = @ + 1]
kmem_free(k) == [k EXCEPT !.vmem = @ - 1]

(* mutex_tryenter / mutex_exit on a slot's barrier *)
Slot(p, i) == mempool[p][i]
(* a try-lock that succeeds on a held barrier *)
mutex_tryenter_held(b) == TRUE
mutex_tryenter(b) == b = NoOwner

(* a pass 1 that frees every idle buffer, whatever its deadline *)
Expire_any(s) ==
    IF s.mem
    THEN [s EXCEPT !.mem = FALSE, !.size = 0, !.timeout = 0]
    ELSE s

(* the free of an idle buffer in pass 1, lines 194-199 *)
Expire(s) ==
    IF s.mem /\ now > s.timeout
    THEN [s EXCEPT !.mem = FALSE, !.size = 0, !.timeout = 0]
    ELSE s

----------------------------------------------------------------------------
(* The end of an allocator call: what the codec and the facade do with the  *)
(* pointer z that the allocator hands back.  c is the caller's frame.       *)

(* zstd_alloc's callers: ZSTD_createCCtx_advanced (zstd_compress line 373)   *)
(* and ZSTD_compressCCtx asking for its workspace (line 383).               *)
(* zstd_dctx_alloc's caller: ZSTD_createDCtx_advanced (line 451), followed  *)
(* by ZSTD_decompressDCtx (line 456).                                       *)
Deliver(t, what, z, c) ==
    /\ scan' = [scan EXCEPT ![t] = NoScan]
    /\ CASE what = "cctx" /\ z = NoMem ->
              /\ pc' = [pc EXCEPT ![t] = "idle"]
              /\ io' = [io EXCEPT ![t] = compress_nomem(c)]
              /\ UNCHANGED held
         [] what = "cctx" /\ z # NoMem ->
              /\ pc' = [pc EXCEPT ![t] = "c_codec"]
              /\ held' = [held EXCEPT ![t] = <<z>>]
              /\ io' = [io EXCEPT ![t] = [c EXCEPT !.ctx = TRUE]]
         [] what = "wksp" /\ z = NoMem ->
              /\ pc' = [pc EXCEPT ![t] = "c_free"]
              /\ io' = [io EXCEPT ![t] = [c EXCEPT !.c_err = TRUE]]
              /\ UNCHANGED held
         [] what = "wksp" /\ z # NoMem ->
              /\ pc' = [pc EXCEPT ![t] = "c_free"]
              /\ held' = [held EXCEPT ![t] = Append(held[t], z)]
              /\ io' = [io EXCEPT ![t] = compress_codec(c)]
         [] what = "dctx" /\ z = NoMem ->
              /\ pc' = [pc EXCEPT ![t] = "idle"]
              /\ io' = [io EXCEPT ![t] = decompress_fail(c)]
              /\ UNCHANGED held
         [] what = "dctx" /\ z # NoMem ->
              /\ pc' = [pc EXCEPT ![t] = "d_free"]
              /\ held' = [held EXCEPT ![t] = <<z>>]
              /\ io' = [io EXCEPT ![t] = decompress_codec([c EXCEPT !.ctx = TRUE])]

(* a zstd_alloc that goes on like zstd_dctx_alloc when the pool gave nothing *)
PoolReturn_any(t, sc, z, c) ==
    IF z = NoMem
    THEN /\ pc' = [pc EXCEPT ![t] = "d_sleep"]
         /\ scan' = [scan EXCEPT ![t] = [sc EXCEPT !.mem = NoMem]]
         /\ io' = [io EXCEPT ![t] = c]
         /\ UNCHANGED held
    ELSE Deliver(t, sc.what, z, c)

(* zstd_mempool_alloc returns z to zstd_alloc (lines 491-497) or to          *)
(* zstd_dctx_alloc (lines 507-516), which tries the heap on NULL            *)
PoolReturn(t, sc, z, c) ==
    IF sc.what = "dctx" /\ z = NoMem
    THEN /\ pc' = [pc EXCEPT ![t] = "d_sleep"]
         /\ scan' = [scan EXCEPT ![t] = [sc EXCEPT !.mem = NoMem]]
         /\ io' = [io EXCEPT ![t] = c]
         /\ UNCHANGED held
    ELSE Deliver(t, sc.what, z, c)

(* the call of zstd_mempool_alloc(pool, nbytes), lines 174-176 *)
BeginAlloc(t, what, p, size, c) ==
    LET nbytes == sizeof_zstd_kmem + size
        sc == [NoScan EXCEPT !.pool = p, !.what = what, !.size = nbytes, !.i = 1]
    IN  IF mempool[p] = <<>>
        THEN PoolReturn(t, sc, NoMem, c)
        ELSE /\ scan' = [scan EXCEPT ![t] = sc]
             /\ pc' = [pc EXCEPT ![t] = "p1"]
             /\ io' = [io EXCEPT ![t] = c]
             /\ UNCHANGED held

----------------------------------------------------------------------------
(* zstd_mempool_alloc *)

(* the loop header of pass 1 after slot i: next slot, return, or pass 2 *)
AfterVisit1(t, m) ==
    LET sc == [scan[t] EXCEPT !.mem = m] IN
    IF sc.i < pool_count
    THEN /\ scan' = [scan EXCEPT ![t] = [sc EXCEPT !.i = sc.i + 1]]
         /\ pc' = [pc EXCEPT ![t] = "p1"]
         /\ UNCHANGED <<held, io>>
    ELSE IF m # NoMem
    THEN PoolReturn(t, sc, m, io[t])
    ELSE /\ scan' = [scan EXCEPT ![t] = [sc EXCEPT !.i = 1]]
         /\ pc' = [pc EXCEPT ![t] = "p2"]
         /\ UNCHANGED <<held, io>>

(* A visit of slot i (mutex_tryenter, the code under the barrier,          *)
(* mutex_exit) is one step: the barrier guards everything the code touches *)
(* in between.  What another thread can see of a visit in progress is its  *)
(* own mutex_tryenter on that slot failing, so mutex_tryenter fails when   *)
(* the barrier is held by a consumer or when another thread is at its      *)
(* visit of the same slot.                                                 *)
Visiting(u, p, i) == pc[u] \in {"p1", "p2"} /\ scan[u].pool = p /\ scan[u].i = i
Busy(t, p, i) ==
    \/ ~mutex_tryenter(Slot(p, i).barrier)
    \/ \E u \in Threads \ {t} : Visiting(u, p, i)

(* lines 180-202: pass 1 at slot i.  A fitting buffer is claimed and its    *)
(* barrier kept; otherwise a buffer past its deadline is freed.            *)
P1Visit(t) ==
    /\ pc[t] = "p1"
    /\ LET p == scan[t].pool
           i == scan[t].i
           s == Slot(p, i)
       IN  \/ /\ mutex_tryenter(s.barrier)
              /\ IF scan[t].mem = NoMem /\ s.mem /\ scan[t].size <= s.size
                 THEN /\ mempool' = [mempool EXCEPT ![p][i] =
                             [s EXCEPT !.barrier = t,
                                       !.timeout = now + ZSTD_POOL_TIMEOUT]]
                      /\ AfterVisit1(t, PoolMem(p, i, s.size))
                      /\ UNCHANGED kern
                 ELSE /\ mempool' = [mempool EXCEPT ![p][i] = Expire(s)]
                      /\ kern' = IF Expire(s) # s THEN kmem_free(kern) ELSE kern
                      /\ AfterVisit1(t, scan[t].mem)
           \/ /\ Busy(t, p, i)
              /\ AfterVisit1(t, scan[t].mem)
              /\ UNCHANGED <<mempool, kern>>
    /\ UNCHANGED <<pool_count, fallback, now, scope>>

(* the loop header of pass 2 after slot i *)
AfterVisit2(t) ==
    /\ IF scan[t].i < pool_count
       THEN /\ scan' = [scan EXCEPT ![t].i = scan[t].i + 1]
            /\ pc' = [pc EXCEPT ![t] = "p2"]
       ELSE /\ scan' = scan
            /\ pc' = [pc EXCEPT ![t] = "heap"]
    /\ UNCHANGED <<held, io>>

(* lines 210-239: pass 2 at slot i.  An empty slot is filled from the heap  *)
(* (vmem_alloc, KM_SLEEP) and its barrier kept; if the heap gives nothing  *)
(* the barrier is released and NULL returned.                              *)
P2Visit(t) ==
    /\ pc[t] = "p2"
    /\ LET p == scan[t].pool
           i == scan[t].i
           s == Slot(p, i)
       IN  \/ /\ mutex_tryenter(s.barrier)
              /\ IF ~s.mem
                 THEN \E ok \in BOOLEAN :
                        IF ok
                        THEN /\ mempool' = [mempool EXCEPT ![p][i] =
                                    [s EXCEPT !.mem = TRUE,
                                              !.size = scan[t].size,
                                              !.barrier = t,
                                              !.timeout = now + ZSTD_POOL_TIMEOUT]]
                             /\ kern' = vmem_alloc(kern)
                             /\ PoolReturn(t, [scan[t] EXCEPT !.km = @ \cup {KM_SLEEP}],
                                           PoolMem(p, i, scan[t].size), io[t])
                        ELSE /\ UNCHANGED <<mempool, kern>>
                             /\ PoolReturn(t, [scan[t] EXCEPT !.km = @ \cup {KM_SLEEP}],
                                           NoMem, io[t])
                 ELSE /\ UNCHANGED <<mempool, kern>>
                      /\ AfterVisit2(t)
           \/ /\ Busy(t, p, i)
              /\ AfterVisit2(t)
              /\ UNCHANGED <<mempool, kern>>
    /\ UNCHANGED <<pool_count, fallback, now, scope>>

(* lines 245-254: the unpooled allocation (vmem_alloc, KM_NOSLEEP) *)
Heap(t) ==
    /\ pc[t] = "heap"
    /\ \E ok \in BOOLEAN :
          /\ kern' = IF ok THEN vmem_alloc(kern) ELSE kern
          /\ PoolReturn(t, [scan[t] EXCEPT !.km = @ \cup {KM_NOSLEEP}],
                        IF ok THEN HeapMem(scan[t].size) ELSE NoMem, io[t])
    /\ UNCHANGED <<pool_count, mempool, fallback, now, scope>>

----------------------------------------------------------------------------
(* zstd_dctx_alloc after the pool gave nothing *)

(* lines 509-513 and 533-536: vmem_alloc(nbytes, KM_SLEEP) *)
DSleep(t) ==
    /\ pc[t] = "d_sleep"
    /\ \E ok \in BOOLEAN :
          IF ok
          THEN /\ kern' = vmem_alloc(kern)
               /\ Deliver(t, "dctx", HeapMem(scan[t].size), io[t])
          ELSE /\ pc' = [pc EXCEPT ![t] = "fb_enter"]
               /\ scan' = [scan EXCEPT ![t].km = @ \cup {KM_SLEEP}]
               /\ UNCHANGED <<held, io, kern>>
    /\ UNCHANGED <<pool_count, mempool, fallback, now, scope>>

(* line 521: mutex_enter(&zstd_dctx_fallback.barrier) *)
FbEnter(t) ==
    /\ pc[t] = "fb_enter"
    /\ fallback.barrier = NoOwner
    /\ fallback' = [fallback EXCEPT !.barrier = t]
    /\ pc' = [pc EXCEPT ![t] = "fb_exit"]
    /\ UNCHANGED <<pool_count, mempool, now, scan, held, io, scope, kern>>

(* line 522: mutex_exit(&zstd_dctx_fallback.barrier) *)
FbExit(t) ==
    /\ pc[t] = "fb_exit"
    /\ fallback' = [fallback EXCEPT !.barrier = NoOwner]
    /\ pc' = [pc EXCEPT ![t] = "fb_reenter"]
    /\ UNCHANGED <<pool_count, mempool, now, scan, held, io, scope, kern>>

(* the slab handed out without waiting for the barrier *)
FbReenter_nowait(t) ==
    /\ pc[t] = "fb_reenter"
    /\ fallback' = [fallback EXCEPT !.barrier = t]
    /\ Deliver(t, "dctx",
               IF fallback.mem THEN FallbackMem(scan[t].size) ELSE NoMem, io[t])
    /\ UNCHANGED <<pool_count, mempool, now, scope, kern>>

(* lines 523-536: mutex_enter again, then hand out the slab *)
FbReenter(t) ==
    /\ pc[t] = "fb_reenter"
    /\ fallback.barrier = NoOwner
    /\ fallback' = [fallback EXCEPT !.barrier = t]
    /\ Deliver(t, "dctx",
               IF fallback.mem THEN FallbackMem(scan[t].size) ELSE NoMem, io[t])
    /\ UNCHANGED <<pool_count, mempool, now, scope, kern>>

----------------------------------------------------------------------------
(* zstd_free, called by ZSTD_freeCCtx (line 388) and ZSTD_freeDCtx (459)    *)
(* for every buffer of the context, last allocated first; after the last   *)
(* one the facade computes its return value.                               *)

(* a zstd_free that leaves the slot's barrier held *)
zstd_free_pool_kept(z) == mempool

(* zstd_mempool_free, lines 260-266: mutex_exit(&pool->barrier) *)
zstd_free_pool(z) ==
    IF z.kmem_type = ZSTD_KMEM_POOL
    THEN [mempool EXCEPT ![z.pool][z.slot].barrier = NoOwner]
    ELSE mempool

(* a zstd_free that leaves the fallback barrier held *)
zstd_free_fallback_kept(z) == fallback

zstd_free_fallback(z) ==
    IF z.kmem_type = ZSTD_KMEM_DCTX
    THEN [fallback EXCEPT !.barrier = NoOwner]
    ELSE fallback

(* a zstd_free that leaves an unpooled buffer allocated *)
zstd_free_default_kept(z) == kern

(* lines 551-553: kmem_free(z, z->kmem_size) of an unpooled buffer *)
zstd_free_default(z) ==
    IF z.kmem_type = ZSTD_KMEM_DEFAULT THEN kmem_free(kern) ELSE kern

Free(t) ==
    /\ pc[t] \in {"c_free", "d_free"}
    /\ held[t] # <<>>
    /\ LET z == held[t][Len(held[t])]
           rest == SubSeq(held[t], 1, Len(held[t]) - 1)
       IN  /\ mempool' = zstd_free_pool(z)
           /\ fallback' = zstd_free_fallback(z)
           /\ kern' = zstd_free_default(z)
           /\ held' = [held EXCEPT ![t] = rest]
           /\ IF rest = <<>>
              THEN /\ pc' = [pc EXCEPT ![t] = "idle"]
                   /\ io' = [io EXCEPT ![t] =
                              IF pc[t] = "c_free" THEN compress_finish(io[t])
                              ELSE decompress_finish(io[t])]
              ELSE UNCHANGED <<pc, io>>
    /\ UNCHANGED <<pool_count, now, scan, scope>>

----------------------------------------------------------------------------
(* The callers' inputs *)

Runs(b) == 1 + Cardinality({k \in 1..(Len(b) - 1) : b[k] # b[k + 1]})

(* the input buffers: bytes 0 and 1, of every length the ASSERT of line 362  *)
(* admits up to MaxLen, with at most MaxRuns runs                          *)
Buffers ==
    UNION {{b \in [1..L -> {0, 1}] : Runs(b) <= MaxRuns} : L \in sizeof_bufsize..MaxLen}

(* every value a caller passes as level *)
Levels ==
    {ZIO_ZSTDLVL_INHERIT, ZIO_ZSTDLVL_DEFAULT, ZIO_COMPLEVEL_DEFAULT}
        \cup {fastlevels[i].level : i \in 1..ARRAY_SIZE(fastlevels)}

FewLevels == {ZIO_ZSTDLVL_INHERIT, ZIO_ZSTDLVL_DEFAULT, 3, ZIO_ZSTDLVL_FAST + 1}
FewBuffers == {Fill(MaxLen, 0), Fill(sizeof_bufsize, 1)}

Input(b, d, n) == [src |-> b, d_len |-> d, n |-> n]

(* d_len obeys ASSERT3U(d_len, >=, sizeof (bufsize)) and (d_len, <=, s_len) *)
Inputs ==
    CASE scope = "alloc" ->
            {Input(Fill(MaxLen, 0), MaxLen, 3)}
      [] scope = "data" ->
            {Input(b, Len(b), n) : b \in Buffers, n \in FewLevels}
                \cup {Input(b, Len(b), n) : b \in FewBuffers, n \in Levels}
                \cup {Input(b, Len(b) - 1, 3) :
                        b \in {x \in Buffers : Len(x) > sizeof_bufsize}}
      [] scope = "corrupt" ->
            {Input(Fill(MaxLen, 0), MaxLen, n) : n \in {3, ZIO_ZSTDLVL_FAST + 1}}
      [] scope = "stored" ->
            {}

(* what happens to a frame between compress and decompress *)
TamperBytes == {0, 1, 255}
Tampers ==
    IF scope = "corrupt"
    THEN {[kind |-> "none", k |-> 0, v |-> 0]}
            \cup {[kind |-> "trunc", k |-> k, v |-> 0] : k \in 1..HeaderSize}
            \cup {[kind |-> "byte", k |-> k, v |-> v] :
                    k \in 0..(HeaderSize - 1), v \in TamperBytes}
    ELSE {[kind |-> "none", k |-> 0, v |-> 0]}

(* what a load finds in memory the caller's buffer does not cover: Intact,  *)
(* the bytes last stored there, or another owner's byte                    *)
Intact == -1
Garbage == {Intact, 255}

(* the bytes zstd_decompress_level can reach from s_start, given the frame  *)
(* of the compress call c, its first s_len bytes passed as the source       *)
SourceView(c, tam, g) ==
    LET C == c.ret
        s_len == IF tam.kind = "trunc" THEN C - tam.k ELSE C
        ext == Poke(c.dst, C + sizeof_bufsize, <<>>)
        img == [k \in 1..(C + sizeof_bufsize) |->
                   IF g = Intact \/ (k <= s_len /\ k <= c.d_len) THEN ext[k]
                   ELSE g]
    IN  IF tam.kind = "byte" THEN Poke(img, tam.k, <<tam.v>>) ELSE img

NeedsGarbage(c, tam) == c.ret > c.d_len \/ tam.kind = "trunc"

----------------------------------------------------------------------------
(* The facade's entry points *)

(* zstd_compress, lines 352-373 *)
StartCompress(t) ==
    /\ pc[t] = "idle"
    /\ io[t].op = "none"
    /\ \E inp \in Inputs :
          BeginAlloc(t, "cctx", "cctx", CCtxSize,
              [NoIo EXCEPT !.op = "compress",
                           !.src = inp.src,
                           !.s_len = Len(inp.src),
                           !.d_len = inp.d_len,
                           !.n = inp.n,
                           !.cookie = compress_levelcookie(inp.n),
                           !.miss = ~EnumKnown(inp.n),
                           !.dst = Fill(inp.d_len, Poison)])
    /\ UNCHANGED <<pool_count, mempool, fallback, now, scope, kern>>

(* ZSTD_compressCCtx, line 383: the codec asks for its workspace *)
CCodec(t) ==
    /\ pc[t] = "c_codec"
    /\ BeginAlloc(t, "wksp", "cctx", WkspSize, io[t])
    /\ UNCHANGED <<pool_count, mempool, fallback, now, scope, kern>>

(* zstd_decompress -> zstd_decompress_level, lines 432-451, on the frame     *)
(* the thread's last zstd_compress produced                                *)
StartDecompress(t) ==
    /\ pc[t] = "idle"
    /\ io[t].op = "compress"
    /\ io[t].ret # io[t].s_len
    /\ \E tam \in Tampers :
       \E g \in IF NeedsGarbage(io[t], tam) THEN Garbage ELSE {Intact} :
          LET src == SourceView(io[t], tam, g)
              s_len == IF tam.kind = "trunc" THEN io[t].ret - tam.k ELSE io[t].ret
              d_len == Max(io[t].s_len, s_len)
              bufsize == BE_IN32(src, 0)
              levelcookie == BE_IN32(src, sizeof_bufsize)
              c == [NoIo EXCEPT !.op = "decompress",
                                !.src = src,
                                !.s_len = s_len,
                                !.d_len = d_len,
                                !.cookie = levelcookie,
                                !.bufsize = bufsize,
                                !.zstdlevel = zstd_cookie_to_enum(levelcookie) % 256,
                                !.dst = Fill(d_len, Poison),
                                !.orig = io[t].src,
                                !.cap = io[t].d_len,
                                !.tam = tam.kind]
          IN  /\ s_len >= HeaderSize
              /\ IF decompress_invalid(bufsize, s_len)
                 THEN /\ io' = [io EXCEPT ![t] = decompress_fail(c)]
                      /\ UNCHANGED <<pc, scan, held>>
                 ELSE BeginAlloc(t, "dctx", "dctx", DCtxSize, c)
    /\ UNCHANGED <<pool_count, mempool, fallback, now, scope, kern>>

(* zstd_get_level, lines 416-430, on the frame the thread's last           *)
(* zstd_compress produced                                                  *)
GetLevel(t) ==
    /\ pc[t] = "idle"
    /\ io[t].op = "compress"
    /\ io[t].ret # io[t].s_len
    /\ ~io[t].gl.called
    /\ \E tam \in Tampers :
       \E g \in IF NeedsGarbage(io[t], tam) THEN Garbage ELSE {Intact} :
          LET s_len == IF tam.kind = "trunc" THEN io[t].ret - tam.k ELSE io[t].ret
              r == zstd_get_level(SourceView(io[t], tam, g), s_len)
          IN  io' = [io EXCEPT ![t].gl =
                        [called |-> TRUE, ret |-> r[1], level |-> r[2],
                         s_len |-> s_len, tam |-> tam.kind]]
    /\ UNCHANGED <<pool_count, mempool, fallback, now, pc, scan, held, scope, kern>>

(* the wall clock *)
TickLen == ZSTD_POOL_TIMEOUT + 1
Tick ==
    /\ now < MaxTicks * TickLen
    /\ now' = now + TickLen
    /\ UNCHANGED <<pool_count, mempool, fallback, pc, scan, held, io, scope, kern>>

----------------------------------------------------------------------------
(* Module load and unload *)

(* the statics before zstd_init: pool_count = 16 (line 76), both pool       *)
(* pointers NULL and zstd_dctx_fallback zeroed (lines 102-104)              *)
NoFallback == [mem_size |-> 0, mem |-> FALSE, barrier |-> NoOwner]
NoPools == [p \in Pools |-> <<>>]

Quiescent == \A t \in Threads : pc[t] = "idle" /\ held[t] = <<>>

(* zstd_init, lines 591-598: pool_count = boot_ncpus * 4, then zstd_meminit  *)
(* (zstd_mempool_init and create_fallback_mem)                              *)
ZstdInit ==
    /\ kern.inits = 0
    /\ Quiescent
    /\ pool_count' = kern.ncpus * 4
    /\ mempool' = zstd_mempool_init(kern.ncpus * 4)
    /\ fallback' = create_fallback_mem(
                       P2ROUNDUP(ZSTD_estimateDCtxSize + sizeof_zstd_kmem, PAGESIZE))
    /\ kern' = [kern EXCEPT !.arrays = Pools, !.slab = "live", !.inits = @ + 1]
    /\ UNCHANGED <<now, pc, scan, held, io, scope>>

(* zstd_fini, line 603: kmem_free(zstd_dctx_fallback.mem, mem_size); the     *)
(* pointer is not cleared                                                   *)
fini_free_slab(k) ==
    IF k.slab = "live" THEN [k EXCEPT !.slab = "freed"]
    ELSE [k EXCEPT !.faults = @ \cup {"kmem_free: fallback slab freed twice"}]

(* zstd_fini, line 604: mutex_destroy(&zstd_dctx_fallback.barrier) *)
fini_destroy_barrier(k) ==
    IF "fallback" \in k.destroyed
    THEN [k EXCEPT !.faults = @ \cup {"mutex_destroy: fallback barrier destroyed twice"}]
    ELSE [k EXCEPT !.destroyed = @ \cup {"fallback"}]

(* the buffers cached in the slots of both pools *)
CachedSlots == {<<p, i>> \in Pools \X (1..pool_count) :
                   mempool[p] # <<>> /\ mempool[p][i].mem}

(* a zstd_mempool_deinit that frees the two arrays only *)
zstd_mempool_deinit_arrays(k) ==
    IF \E p \in Pools : mempool[p] = <<>>
    THEN [k EXCEPT !.faults = @ \cup {"release_pool: NULL pool array"}]
    ELSE [k EXCEPT !.arrays = {}]

(* zstd_mempool_deinit, lines 138-152, with release_pool, lines 126-135:    *)
(* every slot's buffer is given to kmem_free, then both arrays; with the   *)
(* array pointers NULL the first release_pool loads through NULL           *)
zstd_mempool_deinit(k) ==
    IF \E p \in Pools : mempool[p] = <<>>
    THEN [k EXCEPT !.faults = @ \cup {"release_pool: NULL pool array"}]
    ELSE [k EXCEPT !.vmem = @ - Cardinality(CachedSlots), !.arrays = {}]

(* zstd_fini, lines 600-606, called while no thread is inside the adapter *)
ZstdFini ==
    /\ kern.inits > 0
    /\ kern.finis < MaxFinis
    /\ Quiescent
    /\ kern' = [zstd_mempool_deinit(fini_destroy_barrier(fini_free_slab(kern)))
                   EXCEPT !.finis = @ + 1]
    /\ mempool' = IF \E p \in Pools : mempool[p] = <<>> THEN mempool ELSE NoPools
    /\ UNCHANGED <<pool_count, fallback, now, pc, scan, held, io, scope>>

----------------------------------------------------------------------------
(* Specifications *)

(* The threads: callers of the facade, numbered from 1, and, in the        *)
(* saturated start, one further thread per slot of the decompression pool *)
(* that sits inside the codec with that slot's buffer for the whole run.  *)
Callers == {1, 2}
OneCaller == {1}
Workers(n) == {t \in Callers : t <= n}
Holders(n, sat) == IF sat THEN (n + 1)..(n + boot_ncpus * 4) ELSE {}

(* the slot of the decompression pool that holder h filled in pass 2 *)
HeldSlot(h) ==
    [mem |-> TRUE, size |-> sizeof_zstd_kmem + DCtxSize, barrier |-> h,
     timeout |-> ZSTD_POOL_TIMEOUT]

(* the state zstd_init leaves (pool_count = boot_ncpus * 4, zstd_meminit),   *)
(* and, when sat, the same state after pool_count threads each entered a    *)
(* decompression and took one slot of the decompression pool                *)
InitScope(sc, n, sat) ==
    LET all == Workers(n) \cup Holders(n, sat) IN
    /\ scope = sc
    /\ pool_count = boot_ncpus * 4
    /\ mempool = IF sat
                 THEN [zstd_mempool_init(boot_ncpus * 4) EXCEPT
                          !["dctx"] = [i \in 1..(boot_ncpus * 4) |-> HeldSlot(n + i)]]
                 ELSE zstd_mempool_init(boot_ncpus * 4)
    /\ fallback = create_fallback_mem(
                      P2ROUNDUP(ZSTD_estimateDCtxSize + sizeof_zstd_kmem, PAGESIZE))
    /\ now = 0
    /\ pc = [t \in all |-> IF t \in Workers(n) THEN "idle" ELSE "in_codec"]
    /\ scan = [t \in all |-> NoScan]
    /\ held = [t \in all |->
                 IF t \in Workers(n) THEN <<>>
                 ELSE <<PoolMem("dctx", t - n, sizeof_zstd_kmem + DCtxSize)>>]
    /\ io = [t \in all |-> NoIo]
    /\ kern = [NoKern(boot_ncpus) EXCEPT
                  !.vmem = Cardinality(Holders(n, sat)),
                  !.arrays = Pools,
                  !.slab = "live",
                  !.inits = 1]

Step(t) ==
    \/ StartCompress(t)
    \/ CCodec(t)
    \/ StartDecompress(t)
    \/ GetLevel(t)
    \/ P1Visit(t)
    \/ P2Visit(t)
    \/ Heap(t)
    \/ DSleep(t)
    \/ FbEnter(t)
    \/ FbExit(t)
    \/ FbReenter(t)
    \/ Free(t)

(* Two callers, each compressing one fixed buffer and decompressing the     *)
(* frame, racing for the slots while the clock advances; the pool starts   *)
(* fresh or saturated.                                                     *)
Init == \E sat \in BOOLEAN : InitScope("alloc", Cardinality(Callers), sat)
Next == Tick \/ \E t \in Threads : Step(t)
Spec == Init /\ [][Next]_vars

(* One caller and every input buffer, destination size and level *)
InitData == \E sat \in BOOLEAN : InitScope("data", Cardinality(OneCaller), sat)
NextData == \E t \in Threads : Step(t)
SpecData == InitData /\ [][NextData]_vars

(* One caller whose frame is truncated or overwritten before it is read *)
InitCorrupt == \E sat \in BOOLEAN : InitScope("corrupt", Cardinality(OneCaller), sat)
SpecCorrupt == InitCorrupt /\ [][NextData]_vars

(* The saturated start alone, the clock standing still, every caller       *)
(* scheduled: a thread that can go on (it is not waiting in mutex_enter    *)
(* for a held mutex) does go on.                                           *)
InitSat == InitScope("alloc", Cardinality(Callers), TRUE)
Fairness == \A t \in Callers : WF_vars(Step(t))
SpecSat == InitSat /\ [][NextData]_vars /\ Fairness

(* a block written before this life began: what zstd_compress returned    *)
(* for the buffer of MaxLen zero bytes at the default level               *)
StoredFrame ==
    compress_finish(compress_codec(
        [NoIo EXCEPT !.op = "compress",
                     !.src = Fill(MaxLen, 0),
                     !.s_len = MaxLen,
                     !.d_len = MaxLen,
                     !.n = ZIO_ZSTD_LEVEL_DEFAULT,
                     !.cookie = compress_levelcookie(ZIO_ZSTD_LEVEL_DEFAULT),
                     !.dst = Fill(MaxLen, Poison),
                     !.ctx = TRUE]))

(* The module's life: loaded on a machine of 1 to MaxCpus CPUs, used,       *)
(* unloaded, and zstd_fini called again.  Two callers on the machine of    *)
(* boot_ncpus CPUs, one caller on the others.  The callers compress and    *)
(* decompress (scope "alloc"), or each has a stored block to read (scope   *)
(* "stored"), which they can do before zstd_init has run.                  *)
InitLife ==
    \E c \in 1..MaxCpus : \E sc \in {"alloc", "stored"} :
        LET all == IF c = boot_ncpus THEN Callers ELSE OneCaller IN
        /\ scope = sc
        /\ pool_count = pool_count_static
        /\ mempool = NoPools
        /\ fallback = NoFallback
        /\ now = 0
        /\ pc = [t \in all |-> "idle"]
        /\ scan = [t \in all |-> NoScan]
        /\ held = [t \in all |-> <<>>]
        /\ io = [t \in all |-> IF sc = "stored" THEN StoredFrame ELSE NoIo]
        /\ kern = NoKern(c)
NextLife == ZstdInit \/ ZstdFini \/ \E t \in Threads : Step(t)
SpecLife == InitLife /\ [][NextLife]_vars

----------------------------------------------------------------------------
(* Properties of the facade's data path (SpecData, SpecCorrupt) *)

Compressed(t) == io[t].op = "compress" /\ io[t].done
Decompressed(t) == io[t].op = "decompress" /\ io[t].done
TableLevels == {fastlevels[i].level : i \in 1..ARRAY_SIZE(fastlevels)}
LogicalLevels == TableLevels \cup {ZIO_ZSTDLVL_INHERIT, ZIO_ZSTDLVL_DEFAULT}

(* C1: round trip.  When zstd_compress of a buffer B into a destination of  *)
(* B's own length L returned C # L, zstd_decompress of the first C bytes   *)
(* of the output returns 0 and its destination starts with exactly B.      *)
C1_RoundTrip ==
    \A t \in Threads :
        (/\ Decompressed(t)
         /\ io[t].tam = "none"
         /\ io[t].cap = Len(io[t].orig))
        => /\ io[t].ret = 0
           /\ io[t].c_len = Len(io[t].orig)
           /\ SubSeq(io[t].dst, 1, Len(io[t].orig)) = io[t].orig

(* C5: a frame whose payload length plus the 8 header bytes exceeds the    *)
(* source length is rejected at once: the call has returned nonzero, has   *)
(* created no context, has not run the codec and has left dst untouched.   *)
C5_CorruptRejected ==
    \A t \in Threads :
        (/\ io[t].op = "decompress"
         /\ (io[t].bufsize < 0 \/ io[t].bufsize + HeaderSize > io[t].s_len))
        => /\ io[t].done
           /\ io[t].ret # 0
           /\ ~io[t].ctx
           /\ ~io[t].codec
           /\ pc[t] = "idle"
           /\ io[t].dst = Fill(io[t].d_len, Poison)

(* C6: for a zstd_compress at logical level l that returned C # src_len,   *)
(* the first word of the output is C - 8 and zstd_get_level on the output  *)
(* returns 0 with level l, or the default level when l is INHERIT or       *)
(* DEFAULT.                                                                *)
C6_HeaderReportsLevel ==
    \A t \in Threads :
        (/\ Compressed(t)
         /\ io[t].ret # io[t].s_len
         /\ io[t].n \in LogicalLevels
         /\ io[t].gl.called
         /\ io[t].gl.tam = "none")
        => /\ BE_IN32(io[t].dst, 0) = io[t].ret - HeaderSize
           /\ io[t].gl.ret = 0
           /\ io[t].gl.level = IF io[t].n \in TableLevels THEN io[t].n
                               ELSE ZIO_ZSTD_LEVEL_DEFAULT

(* C7: in every frame zstd_compress wrote for a level of the table, the    *)
(* byte at offset 7 (the low byte of the big-endian word at offset 4) is   *)
(* the logical level's enum tag.                                           *)
C7_LevelByte ==
    \A t \in Threads :
        (/\ Compressed(t)
         /\ io[t].ret # io[t].s_len
         /\ io[t].d_len >= HeaderSize
         /\ io[t].n \in TableLevels)
        => io[t].dst[HeaderSize] = io[t].n

(* C8: a zstd_compress whose context could not be created, or whose codec  *)
(* reported an error, has returned exactly s_len.                          *)
C8_BestEffort ==
    \A t \in Threads :
        (Compressed(t) /\ (~io[t].ctx \/ io[t].c_err))
        => io[t].ret = io[t].s_len

(* a compression whose codec ran out of room in a destination shorter than *)
(* the source has returned                                                  *)
C8_Witness ==
    \E t \in Threads :
        /\ Compressed(t)
        /\ io[t].ctx
        /\ io[t].c_err
        /\ io[t].d_len # io[t].s_len
        /\ Len(rle_encode(io[t].src)) > io[t].d_len - HeaderSize
        /\ held[t] = <<>>

(* C9: with d_len = s_len = L, zstd_compress returns L when the codec      *)
(* failed or its payload is not shorter than L - 8, returns the payload    *)
(* length plus 8 otherwise, and never returns more than d_len.             *)
C9_SentinelAndBound ==
    \A t \in Threads :
        (Compressed(t) /\ io[t].d_len = io[t].s_len)
        => LET L == io[t].s_len
               bytes == Len(rle_encode(io[t].src))
           IN  /\ io[t].ret <= io[t].d_len
               /\ IF ~io[t].ctx \/ io[t].c_err \/ bytes >= L - HeaderSize
                  THEN io[t].ret = L
                  ELSE io[t].ret = bytes + HeaderSize

(* C10: a zstd_decompress_level of a frame whose level cookie is not in    *)
(* the table never runs the codec and returns nonzero.                     *)
C10_UnknownCookieFails ==
    \A t \in Threads :
        (io[t].op = "decompress" /\ ~CookieKnown(io[t].cookie))
        => /\ ~io[t].codec
           /\ io[t].done => io[t].ret # 0

----------------------------------------------------------------------------
(* Properties of the allocator under concurrency (Spec, SpecSat) *)

(* the pooled buffers thread t has been handed and not yet freed: those of  *)
(* its codec context, and the one its running scan claimed in pass 1        *)
PooledOf(t) ==
    {held[t][k] : k \in {j \in 1..Len(held[t]) : held[t][j].kmem_type = ZSTD_KMEM_POOL}}
        \cup (IF scan[t].mem.kmem_type = ZSTD_KMEM_POOL THEN {scan[t].mem} ELSE {})
PooledCount(t) ==
    Cardinality({j \in 1..Len(held[t]) : held[t][j].kmem_type = ZSTD_KMEM_POOL})
        + (IF scan[t].mem.kmem_type = ZSTD_KMEM_POOL THEN 1 ELSE 0)
HoldsSlab(t) == \E k \in 1..Len(held[t]) : held[t][k].kmem_type = ZSTD_KMEM_DCTX
AtFallback(t) == pc[t] \in {"fb_enter", "fb_exit", "fb_reenter"}
Saturated ==
    \A i \in 1..pool_count :
        Slot("dctx", i).barrier # NoOwner /\ Slot("dctx", i).barrier \notin Callers

(* C2: the fallback slab is held by at most one thread at a time; a caller  *)
(* that came to the fallback path of zstd_dctx_alloc is eventually handed  *)
(* the slab, and a caller holding the slab eventually completes its        *)
(* decompression with the slab released.                                   *)
C2_FallbackProgress ==
    /\ [](\A t, u \in Threads : (HoldsSlab(t) /\ HoldsSlab(u)) => t = u)
    /\ \A t \in Callers : AtFallback(t) ~> HoldsSlab(t)
    /\ \A t \in Callers : HoldsSlab(t) ~> (Decompressed(t) /\ ~HoldsSlab(t))

(* every slot of the decompression pool is locked by other threads, one     *)
(* caller decompresses in the slab and the other waits for its barrier      *)
C2_Witness ==
    /\ Saturated
    /\ \E t, u \in Callers :
          /\ t # u
          /\ HoldsSlab(t)
          /\ io[t].codec
          /\ pc[u] \in {"fb_enter", "fb_reenter"}
          /\ fallback.barrier = t

(* C3: a pooled buffer that has been handed out is still in its slot, with  *)
(* the capacity it was handed out with and the slot's barrier held by its  *)
(* consumer, and no slot's buffer is handed out twice.                     *)
C3_ExclusiveOwnership ==
    /\ \A t \in Threads : \A z \in PooledOf(t) :
          /\ Slot(z.pool, z.slot).mem
          /\ Slot(z.pool, z.slot).size = z.kmem_size
          /\ Slot(z.pool, z.slot).barrier = t
    /\ \A t \in Threads : Cardinality(PooledOf(t)) = PooledCount(t)
    /\ \A t, u \in Threads : t # u => PooledOf(t) \cap PooledOf(u) = {}

(* a thread's pass 1 has gone past a slot whose buffer another thread      *)
(* holds and whose deadline has passed                                      *)
C3_Witness ==
    \E t, u \in Threads : \E z \in PooledOf(t) :
        /\ t # u
        /\ now > Slot(z.pool, z.slot).timeout
        /\ pc[u] = "p1"
        /\ scan[u].pool = z.pool
        /\ scan[u].i > z.slot

(* C4: with more threads than pool slots, in no state is every caller with *)
(* work left waiting for a mutex, and every call a caller has begun        *)
(* eventually returns.                                                     *)
Unfinished(t) == pc[t] # "idle" \/ io[t].op = "none"
Waiting(t) == pc[t] \in {"fb_enter", "fb_reenter"} /\ fallback.barrier # NoOwner
C4_NoDeadlock ==
    /\ []((\E t \in Callers : Unfinished(t))
            => (\E t \in Callers : Unfinished(t) /\ ~Waiting(t)))
    /\ \A t \in Callers : (pc[t] # "idle") ~> (pc[t] = "idle" /\ io[t].done)

(* there are more threads than slots, the decompression pool is locked     *)
(* throughout, and every caller has completed a compression and then a     *)
(* decompression                                                           *)
C4_Witness ==
    /\ Cardinality(Threads) > pool_count
    /\ Saturated
    /\ \A t \in Callers : Decompressed(t) /\ io[t].ret = 0 /\ pc[t] = "idle"


----------------------------------------------------------------------------
(* Claims about the header inspection and the level table *)

(* C11: zstd_get_level validates the header: called on a frame cut short,  *)
(* so that the payload length plus the 8 header bytes exceeds the source   *)
(* length (or the source is shorter than the header), it has returned a    *)
(* nonzero error.                                                          *)
C11_GetLevelValidates ==
    \A t \in Threads :
        (/\ io[t].gl.called
         /\ io[t].gl.tam = "trunc"
         /\ io[t].gl.s_len < io[t].ret)
        => io[t].gl.ret # 0

(* C12: level bijectivity.  For every level of the table handed to         *)
(* zstd_compress, zstd_cookie_to_enum of the cookie zstd_enum_to_cookie    *)
(* produced is that level again; no two entries of the table share a       *)
(* cookie and no two share a level.                                        *)
C12_LevelBijective ==
    /\ \A t \in Threads :
          (io[t].op = "compress" /\ io[t].n \in TableLevels)
          => /\ io[t].cookie = zstd_enum_to_cookie(io[t].n)
             /\ zstd_cookie_to_enum(io[t].cookie) = io[t].n
    /\ \A i, j \in 1..ARRAY_SIZE(fastlevels) :
          i # j => /\ fastlevels[i].cookie # fastlevels[j].cookie
                   /\ fastlevels[i].level # fastlevels[j].level

(* a compression at the last fast level has returned a frame *)
C12_Witness ==
    \E t \in Threads :
        /\ Compressed(t)
        /\ io[t].ret # io[t].s_len
        /\ io[t].n = ZIO_ZSTDLVL_FAST + Len(FastCookies)
        /\ io[t].cookie = -1000

----------------------------------------------------------------------------
(* Claims about module load and unload (SpecLife) *)

(* C13: zstd_fini is idempotent after one zstd_init.  After a second       *)
(* zstd_fini nothing was freed a second time, no mutex was destroyed a     *)
(* second time and no released pool array was dereferenced.                *)
C13_FiniIdempotent ==
    kern.finis >= 2 => kern.faults = {}

(* C14: no leak.  After zstd_init, allocations each matched by a free, and *)
(* zstd_fini, with no thread inside the adapter: no buffer from the heap   *)
(* is live, both pool arrays and the fallback slab were freed, each once,  *)
(* and both pool pointers are NULL.                                        *)
C14_NoLeak ==
    (kern.inits = 1 /\ kern.finis = 1 /\ Quiescent)
    => /\ kern.vmem = 0
       /\ kern.arrays = {}
       /\ kern.slab = "freed"
       /\ kern.faults = {}
       /\ mempool = NoPools

(* zstd_fini has run after a caller compressed into pooled buffers and     *)
(* decompressed the frame                                                  *)
C14_Witness ==
    /\ scope = "alloc"
    /\ kern.finis = 1
    /\ Quiescent
    /\ kern.ncpus > boot_ncpus
    /\ \E t \in Threads :
          /\ Decompressed(t)
          /\ io[t].ctx
          /\ io[t].ret = 0

(* C15: decompression without a usable fallback.  A thread is never handed *)
(* the fallback slab unless the slab is allocated: not before zstd_init,   *)
(* not after zstd_fini.                                                    *)
C15_NoSlabAfterFini ==
    \A t \in Threads : HoldsSlab(t) => kern.slab = "live"

(* C16: pool size.  After zstd_init both pools have max(16, 4 x cpu_count)  *)
(* slots, cpu_count being boot_ncpus.                                      *)
C16_PoolSize ==
    (kern.inits > 0 /\ kern.finis = 0)
    => /\ pool_count = Max(pool_count_static, 4 * kern.ncpus)
       /\ \A p \in Pools : Len(mempool[p]) = Max(pool_count_static, 4 * kern.ncpus)

----------------------------------------------------------------------------
(* Claims about the allocator's passes and zstd_free *)

OwnsBarrier(t) ==
    \/ fallback.barrier = t
    \/ \E p \in Pools : \E i \in 1..Len(mempool[p]) : mempool[p][i].barrier = t

(* C17: a zstd_decompress_level that created a decompression context has,  *)
(* when it has returned, destroyed it: the thread owns no buffer of the    *)
(* context, no slot's barrier and not the fallback barrier, whether the    *)
(* codec succeeded or reported an error.                                   *)
C17_ContextDestroyed ==
    \A t \in Threads :
        (Decompressed(t) /\ io[t].ctx)
        => /\ pc[t] = "idle"
           /\ held[t] = <<>>
           /\ ~OwnsBarrier(t)

(* a decompression whose codec reported an error has returned 1 *)
C17_Witness ==
    \E t \in Threads :
        /\ Decompressed(t)
        /\ io[t].ctx
        /\ io[t].codec
        /\ io[t].c_err
        /\ io[t].ret = 1

(* C18: allocation falls through to the unpooled heap.  A thread leaves    *)
(* pass 2 of zstd_mempool_alloc only with a buffer from a slot, or on to   *)
(* the non-blocking heap allocation of lines 245-254: a failed allocation  *)
(* for an empty slot does not end the call.                                *)
C18_FallsThroughToHeap ==
    [][\A t \in Threads :
          (pc[t] = "p2" /\ pc'[t] \notin {"p2", "heap"})
          => Len(held'[t]) > Len(held[t])]_vars

(* what pass 1 has to leave in a slot s it locked, for a request of size   *)
(* bytes by a thread t that has (has = TRUE) or has not yet claimed a slot *)
Pass1Outcome(t, has, size, s) ==
    IF ~has /\ s.mem /\ size <= s.size
    THEN [s EXCEPT !.barrier = t, !.timeout = now + 120]
    ELSE IF s.mem /\ now > s.timeout
    THEN [mem |-> FALSE, size |-> 0, barrier |-> NoOwner, timeout |-> 0]
    ELSE s

(* C19: pass-1 reuse and expiry.  Every visit of pass 1 changes at most    *)
(* the visited slot.  A slot the thread could lock is claimed exactly when *)
(* the thread has claimed none yet and the slot holds a buffer of capacity *)
(* >= size: its barrier is kept, its capacity unchanged, its deadline set  *)
(* to now + 120 s.  Any other slot it could lock is freed and cleared      *)
(* exactly when it holds a buffer and now is past its deadline, and is     *)
(* otherwise left as it was, barrier released.  A slot it could not lock   *)
(* is left as it was.                                                      *)
C19_Pass1ReuseExpiry ==
    [][\A t \in Threads :
          (pc[t] = "p1" /\ (pc'[t] # pc[t] \/ scan'[t] # scan[t]))
          => LET p == scan[t].pool
                 i == scan[t].i
                 s == mempool[p][i]
                 s2 == mempool'[p][i]
                 want == Pass1Outcome(t, scan[t].mem # NoMem, scan[t].size, s)
                 contended == \E u \in Threads \ {t} : Visiting(u, p, i)
             IN  /\ \A q \in Pools : \A j \in 1..pool_count :
                       <<q, j>> # <<p, i>> => mempool'[q][j] = mempool[q][j]
                 /\ s.barrier # NoOwner => s2 = s
                 /\ s2 = s \/ s2 = want
                 /\ (s.barrier = NoOwner /\ ~contended) => s2 = want
                 /\ kern'.vmem = IF s.mem /\ ~s2.mem THEN kern.vmem - 1 ELSE kern.vmem
                 /\ (s2.barrier = t /\ s.barrier # t)
                    => \/ scan'[t].mem = PoolMem(p, i, s.size)
                       \/ /\ scan'[t] = NoScan
                          /\ held'[t] # <<>>
                          /\ held'[t][Len(held'[t])] = PoolMem(p, i, s.size)]_vars

(* a thread in pass 1, after the clock went past the deadlines, has        *)
(* claimed the first slot (deadline now + 120 s) and walked on over a slot *)
(* that is now empty, while only its one buffer is left on the heap        *)
C19_Witness ==
    \E t \in Threads :
        /\ pc[t] = "p1"
        /\ now > ZSTD_POOL_TIMEOUT
        /\ scan[t].mem = PoolMem("cctx", 1, Slot("cctx", 1).size)
        /\ Slot("cctx", 1).barrier = t
        /\ Slot("cctx", 1).timeout = now + ZSTD_POOL_TIMEOUT
        /\ scan[t].i > 2
        /\ ~Slot("cctx", 2).mem
        /\ \E u \in Threads \ {t} :
              Compressed(u) /\ io[u].ctx /\ ~io[u].c_err /\ pc[u] = "idle"
        /\ kern.vmem = 1

(* every pooled buffer a thread owns or is about to be handed lies in a    *)
(* slot whose buffer is allocated and whose barrier the thread holds       *)
SlotsHeld ==
    \A t \in Threads : \A z \in PooledOf(t) :
        /\ Slot(z.pool, z.slot).mem
        /\ Slot(z.pool, z.slot).barrier = t
        /\ Slot(z.pool, z.slot).size = z.kmem_size

----------------------------------------------------------------------------
(* Claims about lock order, heap flags and the fallback slab *)

OwnsSlot(t) ==
    \E p \in Pools : \E i \in 1..Len(mempool[p]) : mempool[p][i].barrier = t

(* C21: lock nesting.  A thread that holds the fallback barrier, or is at  *)
(* one of the mutex operations on it, is inside zstd_dctx_alloc for a      *)
(* decompression (or still owns the slab it was handed there) and holds no *)
(* slot's barrier.                                                         *)
C21_LockNesting ==
    \A t \in Threads :
        (AtFallback(t) \/ fallback.barrier = t)
        => /\ io[t].op = "decompress"
           /\ ~OwnsSlot(t)
           /\ PooledOf(t) = {}

(* a thread holds the fallback barrier between its two mutex_enter while   *)
(* another thread holds a slot of a pool that is not saturated             *)
C21_Witness ==
    \E t, u \in Threads :
        /\ t # u
        /\ pc[t] = "fb_exit"
        /\ fallback.barrier = t
        /\ ~Saturated
        /\ PooledOf(u) # {}
        /\ OwnsSlot(u)

(* C22: heap discipline.  No request on an allocation path (the fill of an *)
(* empty slot in pass 2, the unpooled allocation, zstd_dctx_alloc's own    *)
(* allocation) has called vmem_alloc with the blocking flag KM_SLEEP.      *)
C22_HeapDiscipline ==
    \A t \in Threads : KM_SLEEP \notin scan[t].km

(* C23: compress preconditions.  Whenever zstd_compress has called the     *)
(* codec, dst_cap >= 8 and dst_cap <= src_len held, so that the capacity   *)
(* it passed, dst_cap - 8 as a size_t, is the true difference and is at    *)
(* most dst_cap.                                                           *)
C23_CompressPreconditions ==
    \A t \in Threads :
        (io[t].op = "compress" /\ io[t].ctx /\ pc[t] \in {"c_free", "idle"})
        => LET cap == size_sub(size_sub(io[t].d_len, sizeof_bufsize),
                               sizeof_levelcookie)
           IN  /\ io[t].d_len >= HeaderSize
               /\ io[t].d_len <= io[t].s_len
               /\ cap = io[t].d_len - HeaderSize
               /\ cap <= io[t].d_len

(* C24: normalisation order.  zstd_compress never hands INHERIT or DEFAULT *)
(* to zstd_enum_to_cookie, and the lookup it makes never misses.           *)
C24_NormalisedBeforeLookup ==
    \A t \in Threads :
        (io[t].op = "compress"
         /\ io[t].n \in {ZIO_ZSTDLVL_INHERIT, ZIO_ZSTDLVL_DEFAULT})
        => ~io[t].miss

C26_NullLeavesBarrierFree ==
    \A t \in Threads :
        (Decompressed(t) /\ ~io[t].ctx /\ pc[t] = "idle")
        => fallback.barrier # t

============================================================================
